---- MODULE Spec2Model ----
(***************************************************************************)
(* Model of the Gitea release-please action (src/unnamed/part_000).        *)
(*                                                                         *)
(* Text is modelled as a sequence of one-character strings, so that the    *)
(* code's string operations (replace, split, Number, substring, template   *)
(* literals) are computed the way the code computes them.                  *)
(*                                                                         *)
(* Alphabet of the modelled text: decimal digits, the letters used by the  *)
(* literals of the program and by the sample inputs, ".", "-", "+", ":",   *)
(* " ", "*", "#", "(", ")" and the newline.  It holds no whitespace other  *)
(* than the blank and the newline inside messages, and neither "e"/"E"     *)
(* inside tags nor "b"/"o" after a "0", so Number below covers every       *)
(* numeric literal a modelled tag component can spell.                     *)
(***************************************************************************)
EXTENDS Integers, Sequences, FiniteSets, TLC

VARIABLES
    inputs,        \* ActionInputs of this invocation (read-only after Init)
    svc,           \* state of the hosting service (latest release, refs, pull request)
    pc,            \* position of main
    loc,           \* local variables of main
    calls,         \* REST calls submitted so far, in order, with their outcome
    outputs,       \* core.setOutput: the set of <<key, value>> pairs, last write wins
    failed,        \* core.setFailed was called
    completed,     \* the closing core.info of main's try block was logged
    resolverIn,    \* argument of determineNextVersion (pure-function check)
    resolverOut,   \* <<>> or <<result>>
    changelogIn,   \* argument of generateChangelog (pure-function check)
    changelogOut   \* <<>> or <<result>>

vars == <<inputs, svc, pc, loc, calls, outputs, failed, completed,
          resolverIn, resolverOut, changelogIn, changelogOut>>

mainVars == <<inputs, svc, pc, loc, calls, outputs, failed, completed>>

-----------------------------------------------------------------------------
(* Bounds of the model.                                                    *)

MaxComp == 10        \* version components 0..MaxComp in the resolver check
MaxCommits == 3      \* length of the commit history
ShaLen == 8          \* length of a commit identifier (more than the 7 shown)

-----------------------------------------------------------------------------
(* Text helpers.                                                           *)

Digits == <<"0", "1", "2", "3", "4", "5", "6", "7", "8", "9">>

IsDigit(c) == \E i \in 1..10 : Digits[i] = c

DigitVal(c) == (CHOOSE i \in 1..10 : Digits[i] = c) - 1

HexDigits == <<"0", "1", "2", "3", "4", "5", "6", "7", "8", "9",
               "a", "b", "c", "d", "e", "f", "A", "B", "C", "D", "E", "F">>

IsHexDigit(c) == \E i \in 1..22 : HexDigits[i] = c

HexDigitVal(c) == LET i == CHOOSE k \in 1..22 : HexDigits[k] = c
                  IN  IF i <= 16 THEN i - 1 ELSE i - 7

RECURSIVE DecVal(_)
DecVal(s) == IF s = <<>> THEN 0
             ELSE 10 * DecVal(SubSeq(s, 1, Len(s) - 1)) + DigitVal(s[Len(s)])

RECURSIVE HexVal(_)
HexVal(s) == IF s = <<>> THEN 0
             ELSE 16 * HexVal(SubSeq(s, 1, Len(s) - 1)) + HexDigitVal(s[Len(s)])

\* String(n) for an integer n.
RECURSIVE Dec(_)
Dec(n) == IF n < 0 THEN <<"-">> \o Dec(0 - n)
          ELSE IF n < 10 THEN <<Digits[n + 1]>>
          ELSE Dec(n \div 10) \o <<Digits[(n % 10) + 1]>>

\* s.split(sep) for a one-character separator.
RECURSIVE Split(_, _)
Split(s, sep) ==
    IF \A i \in 1..Len(s) : s[i] # sep THEN <<s>>
    ELSE LET i == CHOOSE k \in 1..Len(s) : s[k] = sep /\ \A j \in 1..(k - 1) : s[j] # sep
         IN  <<SubSeq(s, 1, i - 1)>> \o Split(SubSeq(s, i + 1, Len(s)), sep)

\* s.substring(0, n)
Substring0(s, n) == SubSeq(s, 1, IF Len(s) < n THEN Len(s) ELSE n)

\* s.replace(/^v/, '')
StripV(s) == IF s # <<>> /\ Head(s) = "v" THEN Tail(s) ELSE s

-----------------------------------------------------------------------------
(* JavaScript numbers, as far as determineNextVersion meets them.          *)

JsInt(n) == [t |-> "int", v |-> n]
JsNaN == [t |-> "nan", v |-> 0]
JsInf(sign) == [t |-> "inf", v |-> sign]
JsUndefined == [t |-> "undefined", v |-> 0]

INFINITY == <<"I", "n", "f", "i", "n", "i", "t", "y">>

\* Number(s): StringToNumber on the modelled alphabet.
Number(s) ==
    IF s = <<>> THEN JsInt(0)
    ELSE LET signed == Head(s) \in {"+", "-"}
             sign == IF Head(s) = "-" THEN -1 ELSE 1
             body == IF signed THEN Tail(s) ELSE s
         IN  IF body # <<>> /\ \A i \in 1..Len(body) : IsDigit(body[i])
                 THEN JsInt(sign * DecVal(body))
             ELSE IF body = INFINITY THEN JsInf(sign)
             ELSE IF /\ ~signed
                     /\ Len(s) > 2
                     /\ s[1] = "0"
                     /\ s[2] \in {"x", "X"}
                     /\ \A i \in 3..Len(s) : IsHexDigit(s[i])
                 THEN JsInt(HexVal(SubSeq(s, 3, Len(s))))
             ELSE JsNaN

\* versionParts[i] of currentVersion.split('.').map(Number); i counts from 0.
PartAt(parts, i) == IF i + 1 <= Len(parts) THEN Number(parts[i + 1]) ELSE JsUndefined

\* x || 0
OrZero(x) == IF x.t \in {"nan", "undefined"} \/ (x.t = "int" /\ x.v = 0) THEN JsInt(0) ELSE x

\* x + 1
PlusOne(x) == IF x.t = "int" THEN JsInt(x.v + 1) ELSE x

\* `${x}`
ToText(x) == IF x.t = "int" THEN Dec(x.v)
             ELSE IF x.t = "inf" THEN (IF x.v < 0 THEN <<"-">> ELSE <<>>) \o INFINITY
             ELSE <<"N", "a", "N">>

-----------------------------------------------------------------------------
(* getLatestRelease results: null, or { tag_name }.                        *)

Null == [some |-> FALSE, tag_name |-> <<>>]
Some(tag) == [some |-> TRUE, tag_name |-> tag]

DOT == <<".">>

\* A faulty variant: a bump leaves the lower components as they were.
determineNextVersion_NoZeroing(latestRelease, versioningStrategy) ==
    IF ~latestRelease.some THEN <<"1", ".", "0", ".", "0">>
    ELSE LET currentVersion == StripV(latestRelease.tag_name)
             versionParts == Split(currentVersion, ".")
             major == OrZero(PartAt(versionParts, 0))
             minor == OrZero(PartAt(versionParts, 1))
             patch == OrZero(PartAt(versionParts, 2))
         IN  CASE versioningStrategy = "always-bump-major" ->
                      ToText(PlusOne(major)) \o DOT \o ToText(minor) \o DOT \o ToText(patch)
               [] versioningStrategy = "always-bump-minor" ->
                      ToText(major) \o DOT \o ToText(PlusOne(minor)) \o DOT \o ToText(patch)
               [] OTHER ->
                      ToText(major) \o DOT \o ToText(minor) \o DOT \o ToText(PlusOne(patch))

\* A faulty variant: without a prior release the strategy is applied to 0.0.0.
determineNextVersion_BumpsAbsent(latestRelease, versioningStrategy) ==
    LET currentVersion == StripV(latestRelease.tag_name)
        versionParts == Split(currentVersion, ".")
        major == OrZero(PartAt(versionParts, 0))
        minor == OrZero(PartAt(versionParts, 1))
        patch == OrZero(PartAt(versionParts, 2))
    IN  CASE versioningStrategy = "always-bump-major" ->
                 ToText(PlusOne(major)) \o <<".", "0", ".", "0">>
          [] versioningStrategy = "always-bump-minor" ->
                 ToText(major) \o DOT \o ToText(PlusOne(minor)) \o <<".", "0">>
          [] OTHER ->
                 ToText(major) \o DOT \o ToText(minor) \o DOT \o ToText(PlusOne(patch))

\* determineNextVersion, given what its getLatestRelease call returned.
determineNextVersion(latestRelease, versioningStrategy) ==
    IF ~latestRelease.some THEN <<"1", ".", "0", ".", "0">>
    ELSE LET currentVersion == StripV(latestRelease.tag_name)
             versionParts == Split(currentVersion, ".")
             major == OrZero(PartAt(versionParts, 0))
             minor == OrZero(PartAt(versionParts, 1))
             patch == OrZero(PartAt(versionParts, 2))
         IN  CASE versioningStrategy = "always-bump-major" ->
                      ToText(PlusOne(major)) \o <<".", "0", ".", "0">>
               [] versioningStrategy = "always-bump-minor" ->
                      ToText(major) \o DOT \o ToText(PlusOne(minor)) \o <<".", "0">>
               [] OTHER ->
                      ToText(major) \o DOT \o ToText(minor) \o DOT \o ToText(PlusOne(patch))

-----------------------------------------------------------------------------
(* Changelog generator.                                                    *)

PerPage == 100       \* page size main passes to listCommits
AbbrevLen == 7       \* commit.sha.substring(0, 7)

CHANGES_HEADER == <<"#", "#", " ", "C", "h", "a", "n", "g", "e", "s", "\n", "\n">>

\* commit.commit.message.split('\n')[0]
FirstLine(message) == Split(message, "\n")[1]

\* `* ${message} (${commit.sha.substring(0, 7)})\n`
ChangelogLine(commit) ==
    <<"*", " ">> \o FirstLine(commit.message) \o <<" ", "(">>
        \o Substring0(commit.sha, AbbrevLen) \o <<")", "\n">>

\* The for loop of generateChangelog: fromTag is <<>> for null (and for '').
RECURSIVE ChangelogLoop(_, _)
ChangelogLoop(commits, fromTag) ==
    IF commits = <<>> THEN <<>>
    ELSE IF fromTag # <<>> /\ Head(commits).sha = fromTag THEN <<>>
    ELSE ChangelogLine(Head(commits)) \o ChangelogLoop(Tail(commits), fromTag)

\* A faulty variant: the matching commit is emitted before the loop stops.
RECURSIVE ChangelogLoop_StopLate(_, _)
ChangelogLoop_StopLate(commits, fromTag) ==
    IF commits = <<>> THEN <<>>
    ELSE IF fromTag # <<>> /\ Head(commits).sha = fromTag THEN ChangelogLine(Head(commits))
    ELSE ChangelogLine(Head(commits)) \o ChangelogLoop_StopLate(Tail(commits), fromTag)

generateChangelog_StopLate(commits, fromTag) ==
    CHANGES_HEADER \o ChangelogLoop_StopLate(commits, fromTag)

\* generateChangelog, given the commits its listCommits call returned.
generateChangelog(commits, fromTag) == CHANGES_HEADER \o ChangelogLoop(commits, fromTag)

-----------------------------------------------------------------------------
(* Sample data of the hosting service.                                     *)

\* Commit identifiers: ShaLen hexadecimal characters, distinct for distinct i.
Sha(i) == [k \in 1..ShaLen |-> HexDigits[((i * k) % 16) + 1]]

Messages == << <<"f", "i", "x", ":", " ", "a">>,
              <<"f", "e", "a", "t", ":", " ", "b", "\n", "\n", "l", "o", "n", "g", " ", "b", "o", "d", "y">>,
              <<>>,
              <<"c", "h", "o", "r", "e", " ", "(", "c", ")", "\n", "m", "o", "r", "e">> >>

\* The i-th commit of the repository (1 is the oldest).
Commit(i) == [sha |-> Sha(i), message |-> Messages[((i - 1) % 4) + 1]]

\* The history of n commits, newest first, as the commit listing returns it.
History(n) == [k \in 1..n |-> Commit(n + 1 - k)]

TAG_V123 == <<"v", "1", ".", "2", ".", "3">>
PKG_A == <<"p", "k", "g", "A">>
MAIN_BRANCH == <<"m", "a", "i", "n">>
VERSION_230 == <<"2", ".", "3", ".", "0">>

Strategies == {"", "always-bump-major", "always-bump-minor", "always-bump-patch", "bogus"}

\* The text major.minor.patch of three non-negative integers.
VersionText(a, b, c) == Dec(a) \o DOT \o Dec(b) \o DOT \o Dec(c)

\* Tags that are not of the form [v]major.minor.patch.
OddTags == { <<"v", "2", ".", "x">>,
             <<"v", "2">>,
             <<>>,
             <<"v">>,
             <<"1", ".", ".", "3">>,
             <<"v", "I", "n", "f", "i", "n", "i", "t", "y">>,
             <<"v", "-", "1", ".", "0", ".", "0">>,
             <<"v", "1", ".", "2", ".", "3", ".", "4">>,
             <<"v", "v", "1", ".", "2", ".", "3">>,
             <<"v", "0", "x", "1", "f", ".", "0", ".", "0">>,
             <<"p", "k", "g", "A", "-", "v", "1", ".", "2", ".", "3">>,
             <<"v", "1", ".", "2", ".", "3", "-", "r", "c", "1">>,
             <<"v", "+", "4", ".", "5", ".", "6">> }

-----------------------------------------------------------------------------
(* Literals of main and of the output formatter.                           *)

K_releases_created == <<"r", "e", "l", "e", "a", "s", "e", "s", "_", "c", "r", "e", "a", "t", "e", "d">>
K_paths_released == <<"p", "a", "t", "h", "s", "_", "r", "e", "l", "e", "a", "s", "e", "d">>
K_release_created == <<"r", "e", "l", "e", "a", "s", "e", "_", "c", "r", "e", "a", "t", "e", "d">>
K_tag_name == <<"t", "a", "g", "_", "n", "a", "m", "e">>
K_upload_url == <<"u", "p", "l", "o", "a", "d", "_", "u", "r", "l">>
K_html_url == <<"h", "t", "m", "l", "_", "u", "r", "l">>
K_name == <<"n", "a", "m", "e">>
K_body == <<"b", "o", "d", "y">>
K_draft == <<"d", "r", "a", "f", "t">>
K_prerelease == <<"p", "r", "e", "r", "e", "l", "e", "a", "s", "e">>
K_path == <<"p", "a", "t", "h">>
K_version == <<"v", "e", "r", "s", "i", "o", "n">>
K_id == <<"i", "d">>
K_prs_created == <<"p", "r", "s", "_", "c", "r", "e", "a", "t", "e", "d">>
K_pr == <<"p", "r">>
K_prs == <<"p", "r", "s">>

ROOT_PATH == <<".">>
PATH_SEP == <<"-", "-">>
RELEASE_NAME_PREFIX == <<"R", "e", "l", "e", "a", "s", "e", " ">>
PR_TITLE_PREFIX == <<"c", "h", "o", "r", "e", ":", " ", "r", "e", "l", "e", "a", "s", "e", " ">>
PR_BODY_SUFFIX == <<"\n", "\n", "T", "h", "i", "s", " ", "P", "R", " ", "w", "a", "s", " ", "g", "e", "n", "e", "r", "a", "t", "e", "d", " ", "b", "y", " ", "r", "e", "l", "e", "a", "s", "e", "-", "p", "l", "e", "a", "s", "e", " ", "f", "o", "r", " ", "G", "i", "t", "e", "a", ".">>
BRANCH_PREFIX == <<"r", "e", "l", "e", "a", "s", "e", "-", "p", "l", "e", "a", "s", "e", "-", "-">>
LABEL_PENDING == <<"a", "u", "t", "o", "r", "e", "l", "e", "a", "s", "e", ":", " ", "p", "e", "n", "d", "i", "n", "g">>
RELEASE_URL == <<"h", "/", "r", "e", "l", "e", "a", "s", "e", "s", "/", "1">>
UPLOAD_URL == <<"h", "/", "r", "e", "l", "e", "a", "s", "e", "s", "/", "1", "/", "a", "s", "s", "e", "t", "s">>
PR_URL == <<"h", "/", "p", "u", "l", "l", "s", "/", "1">>
TAG_EXTERNAL == <<"v", "5", ".", "0", ".", "0">>

-----------------------------------------------------------------------------
(* Synchronous helpers of main.                                            *)

\* A faulty variant: the path is put in the tag whenever it is set.
TagName_AlwaysComponent(in, nextVersion) ==
    IF in.path # <<>>
        THEN in.path \o <<"-", "v">> \o nextVersion
        ELSE <<"v">> \o nextVersion

\* inputs.includeComponentInTag && inputs.path ? `${path}-v${v}` : `v${v}`
TagName(in, nextVersion) ==
    IF in.includeComponentInTag /\ in.path # <<>>
        THEN in.path \o <<"-", "v">> \o nextVersion
        ELSE <<"v">> \o nextVersion

\* The Release object main builds; id, url and uploadUrl are absent (<<>>)
\* until createRelease returns.
NewRelease(in, nextVersion, changelog) ==
    [tagName |-> TagName(in, nextVersion),
     name |-> RELEASE_NAME_PREFIX \o nextVersion,
     body |-> changelog,
     draft |-> FALSE,
     prerelease |-> FALSE,
     path |-> IF in.path # <<>> THEN in.path ELSE ROOT_PATH,
     version |-> nextVersion,
     id |-> <<>>,
     url |-> <<>>,
     uploadUrl |-> <<>>]

\* `release-please--${inputs.targetBranch}--${nextVersion}`
ReleaseBranchName(in, nextVersion) ==
    BRANCH_PREFIX \o in.targetBranch \o <<"-", "-">> \o nextVersion

\* A faulty variant: labels are attached whatever skipLabeling says.
PrLabels_IgnoreSkip(in) == <<LABEL_PENDING>>

\* inputs.skipLabeling ? [] : ['autorelease: pending']
PrLabels(in) == IF in.skipLabeling THEN <<>> ELSE <<LABEL_PENDING>>

\* The PullRequest object main builds.
NewPullRequest(in, nextVersion, releaseBranchName) ==
    [number |-> 0,
     title |-> PR_TITLE_PREFIX \o nextVersion,
     body |-> RELEASE_NAME_PREFIX \o nextVersion \o PR_BODY_SUFFIX,
     headBranchName |-> releaseBranchName,
     baseBranchName |-> in.targetBranch,
     url |-> <<>>,
     labels |-> PrLabels(in)]

-----------------------------------------------------------------------------
(* Output formatter.  outputs is a function from keys to values.           *)

SetOutput(out, key, value) ==
    [k \in DOMAIN out \cup {key} |-> IF k = key THEN value ELSE out[k]]

\* A faulty variant: the path never prefixes the key.
setPathOutput_NoPrefix(out, path, key, value) == SetOutput(out, key, value)

setPathOutput(out, path, key, value) ==
    IF path = ROOT_PATH THEN SetOutput(out, key, value)
    ELSE SetOutput(out, path \o PATH_SEP \o key, value)

\* Object.entries(release) in insertion order, as <<key, value, defined>>,
\* with the key already translated to its output name.
ReleaseEntries(release) ==
    << <<K_tag_name, release.tagName, TRUE>>,
       <<K_name, release.name, TRUE>>,
       <<K_body, release.body, TRUE>>,
       <<K_draft, release.draft, TRUE>>,
       <<K_prerelease, release.prerelease, TRUE>>,
       <<K_path, release.path, TRUE>>,
       <<K_version, release.version, TRUE>>,
       <<K_id, IF release.id # <<>> THEN release.id[1] ELSE 0, release.id # <<>> >>,
       <<K_html_url, IF release.url # <<>> THEN release.url[1] ELSE <<>>, release.url # <<>> >>,
       <<K_upload_url, IF release.uploadUrl # <<>> THEN release.uploadUrl[1] ELSE <<>>,
         release.uploadUrl # <<>> >> >>

RECURSIVE OutputEntries(_, _, _, _)
OutputEntries(out, path, entries, n) ==
    IF n = 0 THEN out
    ELSE LET before == OutputEntries(out, path, entries, n - 1)
         IN  IF entries[n][3] THEN setPathOutput(before, path, entries[n][1], entries[n][2])
             ELSE before

\* JSON.stringify of a string without characters that need more escaping
\* than the quote, the backslash and the newline.
RECURSIVE JsonEscape(_)
JsonEscape(s) ==
    IF s = <<>> THEN <<>>
    ELSE (CASE Head(s) = "\"" -> <<"\\", "\"">>
            [] Head(s) = "\\" -> <<"\\", "\\">>
            [] Head(s) = "\n" -> <<"\\", "n">>
            [] OTHER -> <<Head(s)>>) \o JsonEscape(Tail(s))

JsonString(s) == <<"\"">> \o JsonEscape(s) \o <<"\"">>

RECURSIVE JsonJoin(_)
JsonJoin(items) ==
    IF items = <<>> THEN <<>>
    ELSE IF Len(items) = 1 THEN items[1]
    ELSE items[1] \o <<",">> \o JsonJoin(Tail(items))

JsonArray(items) == <<"[">> \o JsonJoin(items) \o <<"]">>

JsonStringArray(texts) == JsonArray([i \in 1..Len(texts) |-> JsonString(texts[i])])

RECURSIVE OutputReleaseLoop(_, _, _)
OutputReleaseLoop(out, releases, n) ==
    IF n = 0 THEN out
    ELSE LET before == OutputReleaseLoop(out, releases, n - 1)
             path == releases[n].path
         IN  OutputEntries(setPathOutput(before, path, K_release_created, TRUE),
                           path, ReleaseEntries(releases[n]), 10)

outputReleases(out, releases) ==
    LET flagged == SetOutput(out, K_releases_created, Len(releases) > 0)
        looped == OutputReleaseLoop(flagged, releases, Len(releases))
    IN  SetOutput(looped, K_paths_released,
                  JsonStringArray([i \in 1..Len(releases) |-> releases[i].path]))

JsonField(key, value) == JsonString(key) \o <<":">> \o value

JsonPullRequest(pr) ==
    <<"{">>
        \o JsonJoin(<< JsonField(<<"n", "u", "m", "b", "e", "r">>, Dec(pr.number)),
                       JsonField(<<"t", "i", "t", "l", "e">>, JsonString(pr.title)),
                       JsonField(<<"b", "o", "d", "y">>, JsonString(pr.body)),
                       JsonField(<<"h", "e", "a", "d", "B", "r", "a", "n", "c", "h", "N", "a", "m", "e">>, JsonString(pr.headBranchName)),
                       JsonField(<<"b", "a", "s", "e", "B", "r", "a", "n", "c", "h", "N", "a", "m", "e">>, JsonString(pr.baseBranchName)),
                       JsonField(<<"u", "r", "l">>, JsonString(pr.url)),
                       JsonField(<<"l", "a", "b", "e", "l", "s">>, JsonStringArray(pr.labels)) >>)
        \o <<"}">>

outputPRs(out, prs) ==
    LET flagged == SetOutput(out, K_prs_created, Len(prs) > 0)
    IN  IF Len(prs) > 0
            THEN SetOutput(SetOutput(flagged, K_pr, prs[1]), K_prs,
                           JsonArray([i \in 1..Len(prs) |-> JsonPullRequest(prs[i])]))
            ELSE flagged

-----------------------------------------------------------------------------
(* The pure functions on their own: determineNextVersion over latest tags  *)
(* and strategies, generateChangelog over commit pages and stop references.*)

Idle ==
    /\ inputs = [skipGiteaRelease |-> TRUE, skipGiteaPullRequest |-> TRUE]
    /\ svc = [latest |-> Null]
    /\ pc = "idle"
    /\ loc = <<>>
    /\ calls = <<>>
    /\ outputs = <<>>
    /\ failed = FALSE
    /\ completed = FALSE

WellFormedInputs ==
    { [latestRelease |-> Some((IF withV THEN <<"v">> ELSE <<>>) \o VersionText(t[1], t[2], t[3])),
       versioningStrategy |-> s,
       triple |-> t,
       derived |-> <<>>] :
          t \in (0..MaxComp) \X (0..MaxComp) \X (0..MaxComp), withV \in BOOLEAN, s \in Strategies }

\* Latest releases whose tag the release branch derived from a version
\* major.minor.patch: v<V>, or <path>-v<V> with the component in the tag.
DerivedInputs ==
    { [latestRelease |->
           Some(TagName([includeComponentInTag |-> c, path |-> p],
                        VersionText(t[1], t[2], t[3]))),
       versioningStrategy |-> s,
       triple |-> <<>>,
       derived |-> t] :
          t \in (0..MaxComp) \X (0..MaxComp) \X (0..MaxComp),
          c \in BOOLEAN, p \in {<<>>, PKG_A}, s \in Strategies }

ResolverInputs ==
    WellFormedInputs
        \cup DerivedInputs
        \cup { [latestRelease |-> Some(tag), versioningStrategy |-> s, triple |-> <<>>,
                derived |-> <<>>] :
                   tag \in OddTags, s \in Strategies }
        \cup { [latestRelease |-> Null, versioningStrategy |-> s, triple |-> <<>>,
                derived |-> <<>>] :
                   s \in Strategies }

NoResolverInput ==
    [latestRelease |-> Null, versioningStrategy |-> "", triple |-> <<>>, derived |-> <<>>]

CommitPages ==
    UNION { { [k \in 1..n |-> Commit(f[k])] :
                f \in { g \in [1..n -> 1..MaxCommits] :
                          \A i, j \in 1..n : i # j => g[i] # g[j] } } :
            n \in 0..MaxCommits }

StopReferences ==
    {<<>>, TAG_V123, Substring0(Sha(1), AbbrevLen)} \cup { Sha(i) : i \in 1..MaxCommits }

ChangelogInputs == { [commits |-> cs, fromTag |-> st] : cs \in CommitPages, st \in StopReferences }

NoChangelogInput == [commits |-> <<>>, fromTag |-> <<>>]

InitResolver ==
    /\ Idle
    /\ resolverIn \in ResolverInputs
    /\ resolverOut = <<>>
    /\ changelogIn = NoChangelogInput
    /\ changelogOut = <<>>

ApplyResolver ==
    /\ pc = "idle"
    /\ resolverOut = <<>>
    /\ resolverOut' =
           <<determineNextVersion(resolverIn.latestRelease, resolverIn.versioningStrategy)>>
    /\ UNCHANGED <<mainVars, resolverIn, changelogIn, changelogOut>>

SpecResolver == InitResolver /\ [][ApplyResolver]_vars

InitChangelog ==
    /\ Idle
    /\ resolverIn = NoResolverInput
    /\ resolverOut = <<>>
    /\ changelogIn \in ChangelogInputs
    /\ changelogOut = <<>>

ApplyChangelog ==
    /\ pc = "idle"
    /\ changelogOut = <<>>
    /\ changelogOut' = <<generateChangelog(changelogIn.commits, changelogIn.fromTag)>>
    /\ UNCHANGED <<mainVars, resolverIn, resolverOut, changelogIn>>

SpecChangelog == InitChangelog /\ [][ApplyChangelog]_vars

-----------------------------------------------------------------------------
(* One invocation of main against the hosting service.                     *)
(* Each action is the completion of one awaited REST call (ok tells whether *)
(* the call succeeded) together with the synchronous code that follows it   *)
(* up to the next await.                                                    *)

MaxExternal == 1     \* releases published by others during the invocation

NoLatest == [some |-> FALSE, tag_name |-> <<>>, sha |-> <<>>]

InputSpace ==
    [skipGiteaRelease : BOOLEAN,
     skipGiteaPullRequest : BOOLEAN,
     skipLabeling : BOOLEAN,
     includeComponentInTag : BOOLEAN,
     path : {<<>>, PKG_A},
     releaseAs : {<<>>, VERSION_230},
     versioningStrategy : Strategies,
     targetBranch : {MAIN_BRANCH}]

ServiceSpace ==
    UNION { { [history |-> History(n),
               head |-> Sha(n),
               latest |-> l,
               refs |-> {},
               prs |-> <<>>,
               externals |-> 0] :
                 l \in {NoLatest}
                         \cup { [some |-> TRUE, tag_name |-> TAG_V123, sha |-> Sha(j)] :
                                    j \in 1..n } } :
            n \in 0..MaxCommits }

NoLocals ==
    [nextVersion |-> <<>>,
     branchSha |-> <<>>,
     latestRelease |-> Null,
     release |-> <<>>,
     prVersion |-> <<>>,
     prBranchSha |-> <<>>,
     pr |-> <<>>]

Init ==
    /\ inputs \in InputSpace
    /\ svc \in ServiceSpace
    /\ pc = "start"
    /\ loc = NoLocals
    /\ calls = <<>>
    /\ outputs = <<>>
    /\ failed = FALSE
    /\ completed = FALSE
    /\ resolverIn = NoResolverInput
    /\ resolverOut = <<>>
    /\ changelogIn = NoChangelogInput
    /\ changelogOut = <<>>

pureVars == <<resolverIn, resolverOut, changelogIn, changelogOut>>

Call(op, by, ok, arg) == [op |-> op, by |-> by, ok |-> ok, arg |-> arg]

\* What GiteaClient.getLatestRelease returns: every failure of the call,
\* "no release" included, gives null.
getLatestRelease(ok) == IF ok /\ svc.latest.some THEN Some(svc.latest.tag_name) ELSE Null

\* A faulty variant: the pull-request branch resolves the version even with
\* a releaseAs override.
PrEntry_AlwaysResolve ==
    IF inputs.skipGiteaPullRequest THEN "done" ELSE "pr_version"

\* Where main goes when it reaches `if (!inputs.skipGiteaPullRequest)`.
PrEntry ==
    IF inputs.skipGiteaPullRequest THEN "done"
    ELSE IF inputs.releaseAs # <<>> THEN "pr_getBranch"
    ELSE "pr_version"

\* A faulty variant of the catch block: the error does not end main.
Throw_Continue(by) ==
    /\ failed' = TRUE
    /\ pc' = IF by = "release" THEN PrEntry ELSE "done"
    /\ UNCHANGED completed

\* A faulty variant of the catch block: the error is swallowed without setFailed.
Throw_Silent(by) ==
    /\ pc' = "done"
    /\ UNCHANGED <<failed, completed>>

\* A faulty variant of the catch block: the failed call is awaited again.
Throw_Retry(by) ==
    /\ pc' = pc
    /\ UNCHANGED <<failed, completed>>

\* An awaited call threw: the catch block of main calls setFailed.
Throw(by) ==
    /\ failed' = TRUE
    /\ pc' = "done"
    /\ UNCHANGED completed

\* The locals of main when it enters the pull-request branch: with a
\* releaseAs override nextVersion needs no call.
PrEntryLocals(l) ==
    IF ~inputs.skipGiteaPullRequest /\ inputs.releaseAs # <<>>
        THEN [l EXCEPT !.prVersion = inputs.releaseAs]
        ELSE l

\* main up to its first await.
Begin ==
    /\ pc = "start"
    /\ IF ~inputs.skipGiteaRelease
         THEN /\ pc' = IF inputs.releaseAs # <<>> THEN "rel_getBranch" ELSE "rel_version"
              /\ loc' = [loc EXCEPT !.nextVersion = inputs.releaseAs]
         ELSE /\ pc' = PrEntry
              /\ loc' = PrEntryLocals(loc)
    /\ completed' = (pc' = "done")
    /\ UNCHANGED <<inputs, svc, calls, outputs, failed, pureVars>>

\* Release branch: determineNextVersion (its getLatestRelease call returned).
RelResolveVersion ==
    /\ pc = "rel_version"
    /\ \E ok \in BOOLEAN :
         LET latestRelease == getLatestRelease(ok)
         IN  /\ calls' = Append(calls, Call("getLatestRelease", "release", latestRelease.some, "resolver"))
             /\ loc' = [loc EXCEPT !.nextVersion =
                            determineNextVersion(latestRelease, inputs.versioningStrategy)]
    /\ pc' = "rel_getBranch"
    /\ UNCHANGED <<inputs, svc, outputs, failed, completed, pureVars>>

\* Release branch: getBranch(targetBranch) returned.
RelGetBranch ==
    /\ pc = "rel_getBranch"
    /\ \E ok \in BOOLEAN :
         /\ calls' = Append(calls, Call("getBranch", "release", ok, inputs.targetBranch))
         /\ IF ok
              THEN /\ loc' = [loc EXCEPT !.branchSha = svc.head]
                   /\ pc' = "rel_getLatest"
                   /\ UNCHANGED <<failed, completed>>
              ELSE /\ Throw("release")
                   /\ UNCHANGED loc
    /\ UNCHANGED <<inputs, svc, outputs, pureVars>>

\* A faulty variant: a failed latest-release fetch reaches the catch block.
RelGetLatest_Fatal ==
    /\ pc = "rel_getLatest"
    /\ \E ok \in BOOLEAN :
         LET latestRelease == getLatestRelease(ok)
         IN  /\ calls' = Append(calls, Call("getLatestRelease", "release", latestRelease.some, "changelog"))
             /\ IF latestRelease.some
                  THEN /\ loc' = [loc EXCEPT !.latestRelease = latestRelease]
                       /\ pc' = "rel_listCommits"
                       /\ UNCHANGED <<failed, completed>>
                  ELSE /\ Throw("release")
                       /\ UNCHANGED loc
    /\ UNCHANGED <<inputs, svc, outputs, pureVars>>

\* Release branch: the getLatestRelease call of main returned.
RelGetLatest ==
    /\ pc = "rel_getLatest"
    /\ \E ok \in BOOLEAN :
         LET latestRelease == getLatestRelease(ok)
         IN  /\ calls' = Append(calls, Call("getLatestRelease", "release", latestRelease.some, "changelog"))
             /\ loc' = [loc EXCEPT !.latestRelease = latestRelease]
    /\ pc' = "rel_listCommits"
    /\ UNCHANGED <<inputs, svc, outputs, failed, completed, pureVars>>

\* A faulty variant: a failed commit listing is taken as an empty history.
RelListCommits_Swallow ==
    /\ pc = "rel_listCommits"
    /\ \E ok \in BOOLEAN :
         /\ calls' = Append(calls, Call("listCommits", "release", ok, loc.branchSha))
         /\ LET commits == IF ok THEN Substring0(svc.history, PerPage) ELSE <<>>
                changelog == generateChangelog(commits, loc.latestRelease.tag_name)
            IN  loc' = [loc EXCEPT !.release =
                            <<NewRelease(inputs, loc.nextVersion, changelog)>>]
    /\ pc' = "rel_createRelease"
    /\ UNCHANGED <<inputs, svc, outputs, failed, completed, pureVars>>

\* Release branch: listCommits (inside generateChangelog) returned; main
\* builds the Release and submits createRelease.
RelListCommits ==
    /\ pc = "rel_listCommits"
    /\ \E ok \in BOOLEAN :
         /\ calls' = Append(calls, Call("listCommits", "release", ok, loc.branchSha))
         /\ IF ok
              THEN LET commits == Substring0(svc.history, PerPage)
                       changelog == generateChangelog(commits, loc.latestRelease.tag_name)
                   IN  /\ loc' = [loc EXCEPT !.release =
                                      <<NewRelease(inputs, loc.nextVersion, changelog)>>]
                       /\ pc' = "rel_createRelease"
                       /\ UNCHANGED <<failed, completed>>
              ELSE /\ Throw("release")
                   /\ UNCHANGED loc
    /\ UNCHANGED <<inputs, svc, outputs, pureVars>>

\* Release branch: createRelease returned; on success outputReleases runs and
\* main goes on to the pull-request branch.
RelCreateRelease ==
    /\ pc = "rel_createRelease"
    /\ \E ok \in BOOLEAN :
         /\ calls' = Append(calls, Call("createRelease", "release", ok, loc.release[1]))
         /\ IF ok
              THEN \E hasUploadUrl \in BOOLEAN :
                     LET createdRelease ==
                             [loc.release[1] EXCEPT
                                !.id = <<1>>,
                                !.url = <<RELEASE_URL>>,
                                !.uploadUrl = IF hasUploadUrl THEN <<UPLOAD_URL>> ELSE <<>>]
                     IN  /\ svc' = [svc EXCEPT !.latest =
                                        [some |-> TRUE, tag_name |-> createdRelease.tagName,
                                         sha |-> svc.head]]
                         /\ loc' = PrEntryLocals([loc EXCEPT !.release = <<createdRelease>>])
                         /\ outputs' = outputReleases(outputs, <<createdRelease>>)
                         /\ pc' = PrEntry
                         /\ completed' = (PrEntry = "done")
                         /\ UNCHANGED failed
              ELSE /\ Throw("release")
                   /\ UNCHANGED <<svc, loc, outputs>>
    /\ UNCHANGED <<inputs, pureVars>>

\* Pull-request branch: determineNextVersion.
PrResolveVersion ==
    /\ pc = "pr_version"
    /\ \E ok \in BOOLEAN :
         LET latestRelease == getLatestRelease(ok)
         IN  /\ calls' = Append(calls, Call("getLatestRelease", "pr", latestRelease.some, "resolver"))
             /\ loc' = [loc EXCEPT !.prVersion =
                            determineNextVersion(latestRelease, inputs.versioningStrategy)]
    /\ pc' = "pr_getBranch"
    /\ UNCHANGED <<inputs, svc, outputs, failed, completed, pureVars>>

\* A faulty variant: a failed branch lookup also resets the outputs.
PrGetBranch_ResetsOutputs ==
    /\ pc = "pr_getBranch"
    /\ \E ok \in BOOLEAN :
         /\ calls' = Append(calls, Call("getBranch", "pr", ok, inputs.targetBranch))
         /\ IF ok
              THEN /\ loc' = [loc EXCEPT !.prBranchSha = svc.head]
                   /\ pc' = "pr_createRef"
                   /\ UNCHANGED <<failed, completed, outputs>>
              ELSE /\ Throw("pr")
                   /\ outputs' = <<>>
                   /\ UNCHANGED loc
    /\ UNCHANGED <<inputs, svc, pureVars>>

\* Pull-request branch: getBranch returned; main submits createRef.
PrGetBranch ==
    /\ pc = "pr_getBranch"
    /\ \E ok \in BOOLEAN :
         /\ calls' = Append(calls, Call("getBranch", "pr", ok, inputs.targetBranch))
         /\ IF ok
              THEN /\ loc' = [loc EXCEPT !.prBranchSha = svc.head]
                   /\ pc' = "pr_createRef"
                   /\ UNCHANGED <<failed, completed>>
              ELSE /\ Throw("pr")
                   /\ UNCHANGED loc
    /\ UNCHANGED <<inputs, svc, outputs, pureVars>>

\* A faulty variant: a failed createRef is not caught.
PrCreateRef_Uncaught ==
    /\ pc = "pr_createRef"
    /\ \E ok \in BOOLEAN :
         LET releaseBranchName == ReleaseBranchName(inputs, loc.prVersion)
             created == ok /\ releaseBranchName \notin svc.refs
         IN  /\ calls' = Append(calls, Call("createRef", "pr", created,
                                           [ref |-> releaseBranchName, sha |-> loc.prBranchSha]))
             /\ IF created
                  THEN /\ svc' = [svc EXCEPT !.refs = @ \cup {releaseBranchName}]
                       /\ loc' = [loc EXCEPT !.pr =
                                      <<NewPullRequest(inputs, loc.prVersion, releaseBranchName)>>]
                       /\ pc' = "pr_createPullRequest"
                       /\ UNCHANGED <<failed, completed>>
                  ELSE /\ Throw("pr")
                       /\ UNCHANGED <<svc, loc>>
    /\ UNCHANGED <<inputs, outputs, pureVars>>

\* Pull-request branch: createRef returned; its failure is only warned about.
\* main builds the PullRequest and submits pulls.create.
PrCreateRef ==
    /\ pc = "pr_createRef"
    /\ \E ok \in BOOLEAN :
         LET releaseBranchName == ReleaseBranchName(inputs, loc.prVersion)
             created == ok /\ releaseBranchName \notin svc.refs
         IN  /\ calls' = Append(calls, Call("createRef", "pr", created,
                                           [ref |-> releaseBranchName, sha |-> loc.prBranchSha]))
             /\ svc' = IF created THEN [svc EXCEPT !.refs = @ \cup {releaseBranchName}] ELSE svc
             /\ loc' = [loc EXCEPT !.pr =
                            <<NewPullRequest(inputs, loc.prVersion, releaseBranchName)>>]
    /\ pc' = "pr_createPullRequest"
    /\ UNCHANGED <<inputs, outputs, failed, completed, pureVars>>

\* Pull-request branch: pulls.create (inside createPullRequest) returned.
\* With labels to attach, addLabels is submitted; otherwise createPullRequest
\* returns and outputPRs runs.
PrCreatePullRequest ==
    /\ pc = "pr_createPullRequest"
    /\ \E ok \in BOOLEAN :
         /\ calls' = Append(calls, Call("createPullRequest", "pr", ok, loc.pr[1]))
         /\ IF ok
              THEN LET pr == loc.pr[1]
                       createdPR == [pr EXCEPT !.number = 1, !.url = PR_URL]
                   IN  /\ svc' = [svc EXCEPT !.prs = Append(@,
                                      [number |-> 1, head |-> pr.headBranchName,
                                       base |-> pr.baseBranchName, title |-> pr.title,
                                       labels |-> <<>>])]
                       /\ IF Len(pr.labels) > 0
                            THEN /\ pc' = "pr_addLabels"
                                 /\ UNCHANGED <<loc, outputs, completed>>
                            ELSE /\ loc' = [loc EXCEPT !.pr = <<createdPR>>]
                                 /\ outputs' = outputPRs(outputs, <<createdPR>>)
                                 /\ pc' = "done"
                                 /\ completed' = TRUE
                       /\ UNCHANGED failed
              ELSE /\ Throw("pr")
                   /\ UNCHANGED <<svc, loc, outputs>>
    /\ UNCHANGED <<inputs, pureVars>>

\* Pull-request branch: issues.addLabels (inside createPullRequest) returned.
PrAddLabels ==
    /\ pc = "pr_addLabels"
    /\ \E ok \in BOOLEAN :
         /\ calls' = Append(calls, Call("addLabels", "pr", ok,
                                       [issue_number |-> 1, labels |-> loc.pr[1].labels]))
         /\ IF ok
              THEN LET createdPR == [loc.pr[1] EXCEPT !.number = 1, !.url = PR_URL]
                   IN  /\ svc' = [svc EXCEPT !.prs[1].labels = loc.pr[1].labels]
                       /\ loc' = [loc EXCEPT !.pr = <<createdPR>>]
                       /\ outputs' = outputPRs(outputs, <<createdPR>>)
                       /\ pc' = "done"
                       /\ completed' = TRUE
                       /\ UNCHANGED failed
              ELSE /\ Throw("pr")
                   /\ UNCHANGED <<svc, loc, outputs>>
    /\ UNCHANGED <<inputs, pureVars>>

\* Another actor publishes a release on the target branch head while main is
\* suspended in an await.
ExternalRelease ==
    /\ pc \notin {"start", "done", "idle"}
    /\ svc.externals < MaxExternal
    /\ svc' = [svc EXCEPT !.latest = [some |-> TRUE, tag_name |-> TAG_EXTERNAL, sha |-> svc.head],
                          !.externals = @ + 1]
    /\ UNCHANGED <<inputs, pc, loc, calls, outputs, failed, completed, pureVars>>

Next ==
    \/ Begin
    \/ RelResolveVersion
    \/ RelGetBranch
    \/ RelGetLatest
    \/ RelListCommits
    \/ RelCreateRelease
    \/ PrResolveVersion
    \/ PrGetBranch
    \/ PrCreateRef
    \/ PrCreatePullRequest
    \/ PrAddLabels
    \/ ExternalRelease

Spec == Init /\ [][Next]_vars

\* The steps of main itself.
MainStep ==
    \/ Begin
    \/ RelResolveVersion
    \/ RelGetBranch
    \/ RelGetLatest
    \/ RelListCommits
    \/ RelCreateRelease
    \/ PrResolveVersion
    \/ PrGetBranch
    \/ PrCreateRef
    \/ PrCreatePullRequest
    \/ PrAddLabels

\* main has returned without calling setFailed.
Succeeded == pc = "done" /\ ~failed

-----------------------------------------------------------------------------
(* Properties of the version resolver (under SpecResolver).                *)

SemverLess(x, y) ==
    \/ x[1] < y[1]
    \/ x[1] = y[1] /\ x[2] < y[2]
    \/ x[1] = y[1] /\ x[2] = y[2] /\ x[3] < y[3]

IsNaturalText(s) == s # <<>> /\ \A i \in 1..Len(s) : IsDigit(s[i])

IsIntegerText(s) ==
    \/ IsNaturalText(s)
    \/ s # <<>> /\ Head(s) = "-" /\ IsNaturalText(Tail(s))

ExpectedBump(t, s) ==
    CASE s = "always-bump-major" -> <<t[1] + 1, 0, 0>>
      [] s = "always-bump-minor" -> <<t[1], t[2] + 1, 0>>
      [] OTHER -> <<t[1], t[2], t[3] + 1>>

\* C4: for a latest tag major.minor.patch or vmajor.minor.patch the resolver
\* returns (major+1).0.0 for always-bump-major, major.(minor+1).0 for
\* always-bump-minor and major.minor.(patch+1) for every other strategy, and
\* the result is strictly greater than the input in semantic-version order.
C4_ResolverBumps ==
    (resolverOut # <<>> /\ resolverIn.triple # <<>>) =>
        LET t == resolverIn.triple
            e == ExpectedBump(t, resolverIn.versioningStrategy)
            parts == Split(resolverOut[1], ".")
        IN  /\ resolverOut[1] = VersionText(e[1], e[2], e[3])
            /\ Len(parts) = 3
            /\ \A i \in 1..3 : IsNaturalText(parts[i])
            /\ SemverLess(t, <<DecVal(parts[1]), DecVal(parts[2]), DecVal(parts[3])>>)

C4_Witness ==
    /\ resolverOut = << <<"1", ".", "1", "0", ".", "0">> >>
    /\ resolverIn.triple = <<1, 9, 3>>
    /\ resolverIn.versioningStrategy = "always-bump-minor"

\* C6: for every latest-tag string the resolver's result is three integer
\* components joined by dots (missing or non-numeric components count as 0;
\* tag v2.x with a patch bump gives 2.0.1).
C6_ThreeIntegerComponents ==
    (resolverOut # <<>> /\ resolverIn.latestRelease.some) =>
        LET parts == Split(resolverOut[1], ".")
        IN  /\ Len(parts) = 3
            /\ \A i \in 1..3 : IsIntegerText(parts[i])
            /\ (resolverIn.latestRelease.tag_name = <<"v", "2", ".", "x">>
                    /\ resolverIn.versioningStrategy = "always-bump-patch")
                   => resolverOut[1] = <<"2", ".", "0", ".", "1">>

\* C19: for every version V, every strategy and every tag the release branch
\* derives from V (v<V> and <path>-v<V>), the resolver applied to a latest
\* release with that tag returns a version strictly greater than V.
C19_RoundTripIncreases ==
    (resolverOut # <<>> /\ resolverIn.derived # <<>>) =>
        LET parts == Split(resolverOut[1], ".")
        IN  /\ Len(parts) = 3
            /\ \A i \in 1..3 : IsNaturalText(parts[i])
            /\ SemverLess(resolverIn.derived,
                          <<DecVal(parts[1]), DecVal(parts[2]), DecVal(parts[3])>>)

-----------------------------------------------------------------------------
(* Properties of the changelog generator (under SpecChangelog).            *)

\* The text before the first newline of a message.
SubjectOf(message) ==
    IF \A i \in 1..Len(message) : message[i] # "\n" THEN message
    ELSE SubSeq(message, 1,
                (CHOOSE k \in 1..Len(message) :
                     message[k] = "\n" /\ \A j \in 1..(k - 1) : message[j] # "\n") - 1)

ExpectedBullet(commit) ==
    <<"*", " ">> \o SubjectOf(commit.message) \o <<" ", "(">>
        \o SubSeq(commit.sha, 1, 7) \o <<")", "\n">>

RECURSIVE ExpectedBullets(_, _)
ExpectedBullets(commits, n) ==
    IF n = 0 THEN <<>>
    ELSE ExpectedBullets(commits, n - 1) \o ExpectedBullet(commits[n])

\* The number of commits before the one whose identifier is ref (all of them
\* when no commit has that identifier).
CommitsBefore(commits, ref) ==
    IF \E k \in 1..Len(commits) : commits[k].sha = ref
        THEN (CHOOSE k \in 1..Len(commits) :
                  commits[k].sha = ref /\ \A j \in 1..(k - 1) : commits[j].sha # ref) - 1
        ELSE Len(commits)

\* C7: with an absent stop reference generateChangelog emits one bullet per
\* commit of the page, in order; with a stop reference equal to the identifier
\* of the Nth commit it emits exactly the first N-1 commits, in order; each
\* bullet is the first message line and the first 7 characters of the
\* identifier in parentheses, under the header "## Changes".
C7_ChangelogStopsAtReference ==
    (changelogOut # <<>>) =>
        LET cs == changelogIn.commits
            ref == changelogIn.fromTag
        IN  /\ ref = <<>> =>
                   changelogOut[1] = CHANGES_HEADER \o ExpectedBullets(cs, Len(cs))
            /\ (\E k \in 1..Len(cs) : cs[k].sha = ref) =>
                   changelogOut[1] = CHANGES_HEADER \o ExpectedBullets(cs, CommitsBefore(cs, ref))

C7_Witness ==
    /\ changelogOut # <<>>
    /\ Len(changelogIn.commits) = 3
    /\ changelogIn.fromTag = changelogIn.commits[2].sha
    /\ changelogOut[1] = CHANGES_HEADER \o ExpectedBullet(changelogIn.commits[1])

-----------------------------------------------------------------------------
(* Properties of one invocation of main (under Spec).                      *)

\* The index of the first call with this operation made by this branch, 0 if none.
FirstCall(op, by) ==
    IF \E i \in 1..Len(calls) : calls[i].op = op /\ calls[i].by = by
        THEN CHOOSE i \in 1..Len(calls) :
                 /\ calls[i].op = op /\ calls[i].by = by
                 /\ \A j \in 1..(i - 1) : ~(calls[j].op = op /\ calls[j].by = by)
        ELSE 0

\* C1: when both branches run, the version in the pull request's title and
\* head branch name is the version of the release the release branch submitted.
C1_OneVersionPerInvocation ==
    (loc.release # <<>> /\ loc.pr # <<>>) =>
        /\ loc.pr[1].title = PR_TITLE_PREFIX \o loc.release[1].version
        /\ loc.pr[1].headBranchName =
               BRANCH_PREFIX \o inputs.targetBranch \o <<"-", "-">> \o loc.release[1].version

\* C2: when main ends in success both releases_created and prs_created have
\* been emitted, a skipped branch's flag as false; with the pull-request branch
\* skipped and a release created, releases_created is true and prs_created false.
C2_BothFlagsEmitted ==
    Succeeded =>
        /\ K_releases_created \in DOMAIN outputs
        /\ K_prs_created \in DOMAIN outputs
        /\ inputs.skipGiteaRelease => outputs[K_releases_created] = FALSE
        /\ inputs.skipGiteaPullRequest => outputs[K_prs_created] = FALSE
        /\ ~inputs.skipGiteaRelease => outputs[K_releases_created] = TRUE

\* C3: the body of the submitted release lists only the commits newer than the
\* commit the prior release marks, when that commit is in the listed page, and
\* all listed commits when there is no prior release.
C3_ChangelogSinceLastRelease ==
    (pc = "rel_createRelease") =>
        LET page == Substring0(svc.history, PerPage)
            body == loc.release[1].body
        IN  /\ ~loc.latestRelease.some =>
                   body = CHANGES_HEADER \o ExpectedBullets(page, Len(page))
            /\ (/\ loc.latestRelease.some
                /\ svc.latest.some
                /\ svc.latest.tag_name = loc.latestRelease.tag_name
                /\ \E k \in 1..Len(page) : page[k].sha = svc.latest.sha) =>
                   body = CHANGES_HEADER \o ExpectedBullets(page, CommitsBefore(page, svc.latest.sha))

\* The release branch resolved its version itself and found no prior release.
NoPriorRelease ==
    /\ inputs.releaseAs = <<>>
    /\ FirstCall("getLatestRelease", "release") > 0
    /\ ~calls[FirstCall("getLatestRelease", "release")].ok

\* C5: with no prior release and no releaseAs override the version is 1.0.0
\* whatever the strategy, the submitted tag is v1.0.0 when the component is not
\* put in the tag, and the body is exactly the header when no commit is listed.
C5_FirstReleaseDefaults ==
    NoPriorRelease =>
        /\ loc.nextVersion = <<"1", ".", "0", ".", "0">>
        /\ loc.release # <<>> =>
               /\ loc.release[1].version = <<"1", ".", "0", ".", "0">>
               /\ ~inputs.includeComponentInTag =>
                      loc.release[1].tagName = <<"v", "1", ".", "0", ".", "0">>
               /\ svc.history = <<>> =>
                      loc.release[1].body = <<"#", "#", " ", "C", "h", "a", "n", "g", "e", "s", "\n", "\n">>

C5_Witness ==
    /\ NoPriorRelease
    /\ inputs.versioningStrategy = "always-bump-minor"
    /\ inputs.path # <<>>
    /\ svc.history = <<>>
    /\ \E i \in 1..Len(calls) : calls[i].op = "createRelease" /\ calls[i].ok

\* C8: when createRelease fails the invocation is marked failed and no call
\* at all, so none of the pull-request branch, is made afterwards.
C8_ReleaseFailureAborts ==
    \A i \in 1..Len(calls) :
        (calls[i].op = "createRelease" /\ ~calls[i].ok) =>
            /\ i = Len(calls)
            /\ failed
            /\ pc = "done"

C8_Witness ==
    /\ calls # <<>>
    /\ calls[Len(calls)].op = "createRelease"
    /\ ~calls[Len(calls)].ok
    /\ ~inputs.skipGiteaPullRequest
    /\ pc = "done"

\* C9: a failed createRef does not mark the invocation failed and does not
\* stop the flow: pulls.create is submitted next, with head the derived branch
\* name release-please--<targetBranch>--<version> and base the target branch.
C9_RefFailureTolerated ==
    \A i \in 1..Len(calls) :
        (calls[i].op = "createRef" /\ ~calls[i].ok) =>
            LET derived == BRANCH_PREFIX \o inputs.targetBranch \o <<"-", "-">> \o loc.prVersion
            IN  /\ calls[i].arg.ref = derived
                /\ i = Len(calls) =>
                       /\ ~failed
                       /\ pc = "pr_createPullRequest"
                       /\ loc.pr[1].headBranchName = derived
                       /\ loc.pr[1].baseBranchName = inputs.targetBranch
                /\ i < Len(calls) =>
                       /\ calls[i + 1].op = "createPullRequest"
                       /\ calls[i + 1].arg.headBranchName = derived
                       /\ calls[i + 1].arg.baseBranchName = inputs.targetBranch

C9_Witness ==
    /\ Succeeded
    /\ \E i \in 1..(Len(calls) - 1) :
           /\ calls[i].op = "createRef" /\ ~calls[i].ok
           /\ calls[i + 1].op = "createPullRequest" /\ calls[i + 1].ok
    /\ Len(svc.prs) = 1

\* C10: addLabels is submitted only after pulls.create succeeded, as a call of
\* its own with exactly the label "autorelease: pending", never with
\* skipLabeling set; if it fails the invocation is marked failed while the
\* pull request exists without labels.
C10_LabelsAfterCreation ==
    /\ pc = "pr_addLabels" =>
           /\ calls[Len(calls)].op = "createPullRequest"
           /\ calls[Len(calls)].ok
           /\ ~inputs.skipLabeling
           /\ loc.pr[1].labels = <<LABEL_PENDING>>
    /\ \A i \in 1..Len(calls) :
           /\ (calls[i].op = "addLabels") =>
                  /\ i > 1
                  /\ calls[i - 1].op = "createPullRequest"
                  /\ calls[i - 1].ok
                  /\ ~inputs.skipLabeling
                  /\ calls[i].arg.labels = <<LABEL_PENDING>>
                  /\ ~calls[i].ok =>
                         /\ failed
                         /\ pc = "done"
                         /\ Len(svc.prs) = 1
                         /\ svc.prs[1].labels = <<>>
           /\ (calls[i].op = "createPullRequest" /\ ~calls[i].ok) =>
                  /\ i = Len(calls)
                  /\ pc = "done"

C10_Witness ==
    /\ calls # <<>>
    /\ calls[Len(calls)].op = "addLabels"
    /\ ~calls[Len(calls)].ok
    /\ failed
    /\ Len(svc.prs) = 1
    /\ svc.prs[1].labels = <<>>

\* createRelease has succeeded in this invocation.
ReleaseCreated == \E i \in 1..Len(calls) : calls[i].op = "createRelease" /\ calls[i].ok

\* The prefix of a release's output keys.
ExpectedPrefix(path) == IF path = <<".">> THEN <<>> ELSE path \o <<"-", "-">>

Emitted(key, value) == key \in DOMAIN outputs /\ outputs[key] = value

\* The outputs the release branch sets for the created release r.
ReleaseOutputsSet(r) ==
    LET pre == ExpectedPrefix(r.path)
    IN  /\ Emitted(K_releases_created, TRUE)
        /\ Emitted(K_paths_released, <<"[", "\"">> \o r.path \o <<"\"", "]">>)
        /\ Emitted(pre \o K_release_created, TRUE)
        /\ Emitted(pre \o K_tag_name, r.tagName)
        /\ Emitted(pre \o K_name, r.name)
        /\ Emitted(pre \o K_body, r.body)
        /\ Emitted(pre \o K_version, r.version)
        /\ Emitted(pre \o K_path, r.path)
        /\ Emitted(pre \o K_html_url, RELEASE_URL)
        /\ Emitted(pre \o K_id, 1)

\* C11: when the release branch succeeded and a later step of the
\* pull-request branch fails fatally, the release outputs (releases_created,
\* paths_released, the per-path keys) stay set as they were emitted and the
\* invocation is marked failed.
C11_ReleaseOutputsSurvive ==
    ReleaseCreated =>
        /\ ReleaseOutputsSet(loc.release[1])
        /\ (~calls[Len(calls)].ok /\ calls[Len(calls)].op \in {"getBranch", "createPullRequest", "addLabels"})
               => failed /\ pc = "done"

C11_Witness ==
    /\ ReleaseCreated
    /\ failed
    /\ calls[Len(calls)].op = "addLabels"
    /\ inputs.path = PKG_A
    /\ outputs[K_releases_created] = TRUE

\* The position of main while a mutating call is awaited.
AwaitedAt(op) ==
    CASE op = "createRelease" -> "rel_createRelease"
      [] op = "createRef" -> "pr_createRef"
      [] op = "createPullRequest" -> "pr_createPullRequest"
      [] op = "addLabels" -> "pr_addLabels"

\* How often a call was submitted: the returned ones and the awaited one.
Submitted(op) ==
    Cardinality({i \in 1..Len(calls) : calls[i].op = op}) + (IF pc = AwaitedAt(op) THEN 1 ELSE 0)

\* C12: each mutating call (create release, create ref, create pull request,
\* add labels) is submitted at most once in an invocation, and every failure
\* of one of them other than ref creation marks the invocation failed.
C12_NoRetry ==
    /\ \A op \in {"createRelease", "createRef", "createPullRequest", "addLabels"} :
           Submitted(op) <= 1
    /\ \A i \in 1..Len(calls) :
           (calls[i].op \in {"createRelease", "createPullRequest", "addLabels"} /\ ~calls[i].ok)
               => failed

C12_Witness ==
    /\ pc = "done"
    /\ failed
    /\ Len(calls) > 4
    /\ calls[Len(calls)].op = "createPullRequest"
    /\ \E i \in 1..Len(calls) : calls[i].op = "createRef" /\ ~calls[i].ok
    /\ ReleaseCreated

\* C13: the submitted release's tag is <path>-v<version> exactly when
\* includeComponentInTag is set and a path is given, and v<version> otherwise;
\* path pkgA with version 2.3.0 gives pkgA-v2.3.0, or v2.3.0 without the flag.
C13_TagFromVersion ==
    (loc.release # <<>>) =>
        LET r == loc.release[1]
        IN  /\ (inputs.includeComponentInTag /\ inputs.path # <<>>)
                   => r.tagName = inputs.path \o <<"-", "v">> \o r.version
            /\ ~(inputs.includeComponentInTag /\ inputs.path # <<>>)
                   => r.tagName = <<"v">> \o r.version
            /\ (inputs.path = <<"p", "k", "g", "A">> /\ r.version = <<"2", ".", "3", ".", "0">>)
                   => r.tagName = (IF inputs.includeComponentInTag
                                       THEN <<"p", "k", "g", "A", "-", "v", "2", ".", "3", ".", "0">>
                                       ELSE <<"v", "2", ".", "3", ".", "0">>)

C13_Witness ==
    /\ ReleaseCreated
    /\ inputs.includeComponentInTag
    /\ loc.release[1].tagName = <<"p", "k", "g", "A", "-", "v", "2", ".", "3", ".", "0">>

\* C14: outputReleases emits each per-release key unprefixed for path "." and
\* prefixed with <path>-- otherwise, under the translated names tag_name,
\* upload_url and html_url; a field without a value is not emitted; the
\* aggregate keys releases_created and paths_released are never prefixed.
C14_OutputKeys ==
    ReleaseCreated =>
        LET r == loc.release[1]
            pre == ExpectedPrefix(r.path)
            perRelease == {K_release_created, K_tag_name, K_name, K_body, K_draft,
                           K_prerelease, K_path, K_version, K_id, K_html_url}
            internal == {<<"t", "a", "g", "N", "a", "m", "e">>, <<"u", "p", "l", "o", "a", "d", "U", "r", "l">>, <<"u", "r", "l">>}
        IN  /\ \A k \in perRelease : (pre \o k) \in DOMAIN outputs
            /\ pre # <<>> => \A k \in perRelease \cup {K_upload_url} : k \notin DOMAIN outputs
            /\ outputs[pre \o K_tag_name] = r.tagName
            /\ outputs[pre \o K_html_url] = r.url[1]
            /\ (r.uploadUrl # <<>>) =>
                   Emitted(pre \o K_upload_url, r.uploadUrl[1])
            /\ (r.uploadUrl = <<>>) => (pre \o K_upload_url) \notin DOMAIN outputs
            /\ \A k \in internal : k \notin DOMAIN outputs /\ (pre \o k) \notin DOMAIN outputs
            /\ K_releases_created \in DOMAIN outputs
            /\ K_paths_released \in DOMAIN outputs
            /\ pre # <<>> => /\ (pre \o K_releases_created) \notin DOMAIN outputs
                             /\ (pre \o K_paths_released) \notin DOMAIN outputs

C14_Witness ==
    /\ ReleaseCreated
    /\ loc.release[1].path = PKG_A
    /\ loc.release[1].uploadUrl = <<>>
    /\ <<"p", "k", "g", "A", "-", "-", "t", "a", "g", "_", "n", "a", "m", "e">> \in DOMAIN outputs
    /\ <<"p", "k", "g", "A", "-", "-", "u", "p", "l", "o", "a", "d", "_", "u", "r", "l">> \notin DOMAIN outputs

\* C15: with a releaseAs override both branches use exactly that text as the
\* version (release name and tag, pull-request title and head branch), the
\* resolver is never invoked, and the only latest-release fetch is the one the
\* release branch makes for the changelog.
C15_ReleaseAsOverrides ==
    (inputs.releaseAs # <<>>) =>
        /\ pc \notin {"rel_version", "pr_version"}
        /\ \A i \in 1..Len(calls) :
               calls[i].op = "getLatestRelease" =>
                   calls[i].by = "release" /\ calls[i].arg = "changelog"
        /\ Cardinality({i \in 1..Len(calls) : calls[i].op = "getLatestRelease"}) <= 1
        /\ loc.release # <<>> =>
               /\ loc.release[1].version = inputs.releaseAs
               /\ loc.release[1].name = RELEASE_NAME_PREFIX \o inputs.releaseAs
               /\ loc.release[1].tagName \in
                      {<<"v">> \o inputs.releaseAs,
                       inputs.path \o <<"-", "v">> \o inputs.releaseAs}
        /\ loc.pr # <<>> =>
               /\ loc.pr[1].title = PR_TITLE_PREFIX \o inputs.releaseAs
               /\ loc.pr[1].headBranchName =
                      BRANCH_PREFIX \o inputs.targetBranch \o <<"-", "-">> \o inputs.releaseAs

C15_Witness ==
    /\ inputs.releaseAs # <<>>
    /\ Succeeded
    /\ ReleaseCreated
    /\ Len(svc.prs) = 1
    /\ inputs.versioningStrategy = "always-bump-major"
    /\ svc.externals = 1

\* A call whose failure main does not guard has failed.
FatalFailure ==
    \E i \in 1..Len(calls) :
        ~calls[i].ok /\ calls[i].op \notin {"createRef", "getLatestRelease"}

\* The position of main, counted in steps from its entry.
Rank ==
    [start |-> 0, rel_version |-> 1, rel_getBranch |-> 2, rel_getLatest |-> 3,
     rel_listCommits |-> 4, rel_createRelease |-> 5, pr_version |-> 6,
     pr_getBranch |-> 7, pr_createRef |-> 8, pr_createPullRequest |-> 9,
     pr_addLabels |-> 10, done |-> 11]

\* C16: when every call eventually returns or fails, main ends (until it has
\* ended a next step is always possible, and every step moves it strictly
\* forward), in exactly one of two outcomes: marked failed, if and only if a
\* call other than createRef and the latest-release lookup failed, or success
\* logged after the outputs of the selected branches were emitted; never both.
C16_OneOutcome ==
    /\ [](pc # "done" => ENABLED MainStep)
    /\ [][/\ Rank[pc'] >= Rank[pc]
          /\ MainStep => Rank[pc'] > Rank[pc]]_vars
    /\ [](~(failed /\ completed))
    /\ [](pc # "done" => ~failed /\ ~completed)
    /\ [](pc = "done" =>
             /\ failed \/ completed
             /\ failed <=> FatalFailure
             /\ completed =>
                    /\ ~inputs.skipGiteaRelease => Emitted(K_releases_created, TRUE)
                    /\ ~inputs.skipGiteaPullRequest =>
                           /\ Emitted(K_prs_created, TRUE)
                           /\ K_pr \in DOMAIN outputs
                           /\ K_prs \in DOMAIN outputs)

C16_Witness ==
    /\ pc = "done"
    /\ completed
    /\ ReleaseCreated
    /\ Len(svc.prs) = 1
    /\ \E i \in 1..Len(calls) : calls[i].op = "createRef" /\ ~calls[i].ok
    /\ \E i \in 1..Len(calls) : calls[i].op = "getLatestRelease" /\ ~calls[i].ok

\* The calls that change the repository on the hosting service.
Mutations == {"createRelease", "createRef", "createPullRequest", "addLabels"}

\* The release branch's reads have returned, in the order of main, before
\* position n of the call log: getBranch, the changelog's getLatestRelease
\* (which returns, with a release or with null), listCommits.
ReleaseReadsBefore(n) ==
    \E a, b, c \in 1..(n - 1) :
        /\ a < b /\ b < c
        /\ calls[a].op = "getBranch" /\ calls[a].by = "release" /\ calls[a].ok
        /\ calls[b].op = "getLatestRelease" /\ calls[b].by = "release"
        /\ calls[b].arg = "changelog"
        /\ calls[c].op = "listCommits" /\ calls[c].by = "release" /\ calls[c].ok

\* The pull-request branch's getBranch has succeeded before position n.
PrBranchReadBefore(n) ==
    \E a \in 1..(n - 1) :
        calls[a].op = "getBranch" /\ calls[a].by = "pr" /\ calls[a].ok

C18_FetchFailureIsAbsence ==
    /\ failed => FatalFailure
    /\ \A i \in 1..Len(calls) :
           (calls[i].op = "getLatestRelease" /\ ~calls[i].ok) =>
               /\ i = Len(calls) => ~failed /\ pc # "done"
               /\ (calls[i].arg = "resolver" /\ calls[i].by = "release")
                      => loc.nextVersion = <<"1", ".", "0", ".", "0">>
               /\ (calls[i].arg = "resolver" /\ calls[i].by = "pr")
                      => loc.prVersion = <<"1", ".", "0", ".", "0">>
               /\ calls[i].arg = "changelog" =>
                      /\ loc.latestRelease = Null
                      /\ loc.release # <<>> =>
                             LET page == Substring0(svc.history, PerPage)
                             IN  loc.release[1].body =
                                     CHANGES_HEADER \o ExpectedBullets(page, Len(page))

\* Both fetches of the release branch failed although a release v1.2.3 exists
\* on the second of three commits.
C18_Witness ==
    /\ pc = "rel_createRelease"
    /\ svc.externals = 0
    /\ svc.latest.some
    /\ svc.latest.tag_name = TAG_V123
    /\ Len(svc.history) = 3
    /\ svc.latest.sha = svc.history[2].sha
    /\ inputs.versioningStrategy = "always-bump-major"
    /\ calls[1].op = "getLatestRelease" /\ ~calls[1].ok
    /\ calls[3].op = "getLatestRelease" /\ ~calls[3].ok
    /\ loc.release[1].version = <<"1", ".", "0", ".", "0">>

\* C20: at the end of an invocation, if createRelease succeeded then
\* releases_created = true was emitted, and if pulls.create succeeded (a pull
\* request exists on the hosting service) then prs_created = true and the
\* pr and prs outputs were emitted.
C20_OutputsReflectMutations ==
    pc = "done" =>
        /\ ReleaseCreated => Emitted(K_releases_created, TRUE)
        /\ (\E i \in 1..Len(calls) : calls[i].op = "createPullRequest" /\ calls[i].ok) =>
               /\ Len(svc.prs) = 1
               /\ Emitted(K_prs_created, TRUE)
               /\ K_pr \in DOMAIN outputs
               /\ K_prs \in DOMAIN outputs

====
